---------------------------- MODULE Spec2Model ----------------------------
(***************************************************************************)
(* Model of the Record screen of the form-builder app                      *)
(* (src/unnamed/part_000): the records / originalRecords state and the     *)
(* applyFilter handler, together with the JavaScript value conversions     *)
(* (String, Number/isNaN, parseFloat, toLowerCase, includes, startsWith)   *)
(* that the handler's criterion evaluation rests on.                       *)
(*                                                                         *)
(* A JavaScript string is a sequence of one-character strings.             *)
(***************************************************************************)
EXTENDS Integers, Sequences, FiniteSets, TLC

(***************************************************************************)
(* Bounds of the model.                                                    *)
(***************************************************************************)
\* longest criteria list the filter builder hands to applyFilter
MaxCriteria == 2

\* the most fetchRecords requests in flight at a time
MaxInFlight == 2

\* the most fetchForms requests in flight at a time
MaxFormsInFlight == 1

MaxDeletes == 2

(***************************************************************************)
(* Characters.                                                             *)
(***************************************************************************)
DigitChars == <<"0", "1", "2", "3", "4", "5", "6", "7", "8", "9">>

UpperChars == <<"A", "B", "C", "D", "E", "F", "G", "H", "I", "J", "K", "L", "M",
                "N", "O", "P", "Q", "R", "S", "T", "U", "V", "W", "X", "Y", "Z">>

LowerChars == <<"a", "b", "c", "d", "e", "f", "g", "h", "i", "j", "k", "l", "m",
                "n", "o", "p", "q", "r", "s", "t", "u", "v", "w", "x", "y", "z">>

WhiteSpaceChars == {" "}

Range(f) == {f[i] : i \in DOMAIN f}

DigitSet == Range(DigitChars)

UpperSet == Range(UpperChars)

LowerSet == Range(LowerChars)

IndexOf(seq, c) == CHOOSE i \in DOMAIN seq : seq[i] = c

\* the value of each decimal digit
DigitMap == [c \in DigitSet |-> IndexOf(DigitChars, c) - 1]

\* the lower-case letter of each upper-case letter
LowerMap == [c \in UpperSet |-> LowerChars[IndexOf(UpperChars, c)]]

IsDigit(c) == c \in DigitSet

DigitVal(c) == DigitMap[c]

\* value of c as a hexadecimal digit, or -1 when it is none
HexDigitVal(c) ==
    IF IsDigit(c) THEN DigitVal(c)
    ELSE IF c \in LowerSet /\ IndexOf(LowerChars, c) <= 6 THEN 9 + IndexOf(LowerChars, c)
    ELSE IF c \in UpperSet /\ IndexOf(UpperChars, c) <= 6 THEN 9 + IndexOf(UpperChars, c)
    ELSE -1

\* value of c as a digit of the given radix, or -1 when it is none
RadixDigitVal(c, radix) == IF HexDigitVal(c) < radix THEN HexDigitVal(c) ELSE -1

\* String.prototype.toLowerCase on one character
LowerChar(c) == IF c \in UpperSet THEN LowerMap[c] ELSE c

\* String.prototype.toLowerCase
toLowerCase(s) == [i \in DOMAIN s |-> LowerChar(s[i])]

\* String.prototype.startsWith(t)
startsWith(s, t) == /\ Len(t) <= Len(s)
                    /\ \A i \in 1..Len(t) : s[i] = t[i]

\* String.prototype.includes(t)
includes(s, t) == \E k \in 0..(Len(s) - Len(t)) : \A i \in 1..Len(t) : s[k + i] = t[i]

(***************************************************************************)
(* Numbers.  A Number is NaN, an infinity (m is its sign) or the finite    *)
(* decimal m * 10^e.  The numerals of the model are short enough that      *)
(* their nearest doubles compare as the decimals do.                       *)
(***************************************************************************)
NaN == [k |-> "nan", m |-> 0, e |-> 0]

Infinity(sign) == [k |-> "inf", m |-> sign, e |-> 0]

Finite(m, e) == [k |-> "fin", m |-> m, e |-> e]

Pow10(n) == LET p[i \in 0..n] == IF i = 0 THEN 1 ELSE 10 * p[i - 1] IN p[n]

Min(a, b) == IF a < b THEN a ELSE b

Sign(d) == IF d < 0 THEN -1 ELSE IF d > 0 THEN 1 ELSE 0

\* an infinity lies beyond every finite number
InfRank(a) == IF a.k = "inf" THEN a.m ELSE 0

\* -1, 0 or 1 as a < b, a = b, a > b; neither operand is NaN
NumCompare(a, b) ==
    IF a.k = "inf" \/ b.k = "inf"
    THEN Sign(InfRank(a) - InfRank(b))
    ELSE Sign(a.m * Pow10(a.e - Min(a.e, b.e)) - b.m * Pow10(b.e - Min(a.e, b.e)))

\* the operators ===, >, <, >=, <= on two Numbers: false when either is NaN
NumEq(a, b) == a.k # "nan" /\ b.k # "nan" /\ NumCompare(a, b) = 0
NumGt(a, b) == a.k # "nan" /\ b.k # "nan" /\ NumCompare(a, b) = 1
NumLt(a, b) == a.k # "nan" /\ b.k # "nan" /\ NumCompare(a, b) = -1
NumGe(a, b) == a.k # "nan" /\ b.k # "nan" /\ NumCompare(a, b) >= 0
NumLe(a, b) == a.k # "nan" /\ b.k # "nan" /\ NumCompare(a, b) <= 0


(***************************************************************************)
(* Numeric literals: the StrDecimalLiteral grammar shared by Number() and  *)
(* parseFloat().                                                           *)
(***************************************************************************)
\* the character at position i, or "" beyond the end of s
CharAt(s, i) == IF i \in 1..Len(s) THEN s[i] ELSE ""

\* first position from i on that holds no decimal digit
DigitsEnd(s, i) ==
    CHOOSE j \in i..(Len(s) + 1) :
        /\ (j = Len(s) + 1 \/ ~IsDigit(s[j]))
        /\ \A k \in i..(j - 1) : IsDigit(s[k])

\* the number written by the digits (of the given radix) at positions i..j-1
DigitsValue(s, i, j, radix) ==
    LET v[k \in (i - 1)..(j - 1)] ==
            IF k = i - 1 THEN 0 ELSE radix * v[k - 1] + RadixDigitVal(s[k], radix)
    IN  v[j - 1]

\* first position from i on that holds no white space
SkipWhiteSpace(s, i) ==
    CHOOSE j \in i..(Len(s) + 1) :
        /\ (j = Len(s) + 1 \/ s[j] \notin WhiteSpaceChars)
        /\ \A k \in i..(j - 1) : s[k] \in WhiteSpaceChars

\* last position that holds no white space, 0 when there is none
LastNonWhiteSpace(s) ==
    CHOOSE j \in 0..Len(s) :
        /\ (j = 0 \/ s[j] \notin WhiteSpaceChars)
        /\ \A k \in (j + 1)..Len(s) : s[k] \in WhiteSpaceChars

Between(s, first, last) == IF first > last THEN <<>> ELSE SubSeq(s, first, last)

\* String.prototype.trim
Trim(s) == Between(s, SkipWhiteSpace(s, 1), LastNonWhiteSpace(s))

InfinityChars == <<"I", "n", "f", "i", "n", "i", "t", "y">>

\* the result of scanning a numeric literal: [ok, num, end], end the position after it
Literal(m, e, end) == [ok |-> TRUE, num |-> Finite(m, e), end |-> end]

NoLiteral(i) == [ok |-> FALSE, num |-> NaN, end |-> i]

\* the exponent part, its digits at e1..eEnd-1: without digits the literal ends at b
ScanExponentDigits(s, sgn, nFrac, mant, b, esgn, e1, eEnd) ==
    IF eEnd > e1
    THEN Literal(sgn * mant, esgn * DigitsValue(s, e1, eEnd, 10) - nFrac, eEnd)
    ELSE Literal(sgn * mant, -nFrac, b)

\* the exponent part from its optional sign on
ScanExponentSign(s, sgn, nFrac, mant, b, esgn, e1) ==
    ScanExponentDigits(s, sgn, nFrac, mant, b, esgn, e1, DigitsEnd(s, e1))

\* what follows a mantissa of nInt integer and nFrac fraction digits that ends
\* before position b
ScanExponent(s, i, sgn, nInt, nFrac, mant, b) ==
    IF nInt = 0 /\ nFrac = 0 THEN NoLiteral(i)
    ELSE IF CharAt(s, b) \in {"e", "E"}
    THEN ScanExponentSign(s, sgn, nFrac, mant, b,
                          IF CharAt(s, b + 1) = "-" THEN -1 ELSE 1,
                          IF CharAt(s, b + 1) \in {"+", "-"} THEN b + 2 ELSE b + 1)
    ELSE Literal(sgn * mant, -nFrac, b)

\* the fraction digits at a+1..b-1, after the integer digits at i1..a-1 and the dot
ScanFraction(s, i, sgn, i1, a, b) ==
    ScanExponent(s, i, sgn, a - i1, b - (a + 1),
                 DigitsValue(s, i1, a, 10) * Pow10(b - (a + 1)) + DigitsValue(s, a + 1, b, 10),
                 b)

\* the integer digits at i1..a-1 and what follows them
ScanMantissa(s, i, sgn, i1, a) ==
    IF CharAt(s, a) = "."
    THEN ScanFraction(s, i, sgn, i1, a, DigitsEnd(s, a + 1))
    ELSE ScanExponent(s, i, sgn, a - i1, 0, DigitsValue(s, i1, a, 10), a)

\* the literal after its optional sign
ScanUnsigned(s, i, sgn, i1) ==
    IF startsWith(SubSeq(s, i1, Len(s)), InfinityChars)
    THEN [ok |-> TRUE, num |-> Infinity(sgn), end |-> i1 + Len(InfinityChars)]
    ELSE ScanMantissa(s, i, sgn, i1, DigitsEnd(s, i1))

\* the longest StrDecimalLiteral that starts at position i of s
ScanDecimal(s, i) ==
    ScanUnsigned(s, i,
                 IF CharAt(s, i) = "-" THEN -1 ELSE 1,
                 IF CharAt(s, i) \in {"+", "-"} THEN i + 1 ELSE i)

NumOrNaN(r) == IF r.ok THEN r.num ELSE NaN

\* parseFloat applied to a string: the longest numeric prefix after leading
\* white space, NaN when there is none
ParseFloatString(s) == NumOrNaN(ScanDecimal(s, SkipWhiteSpace(s, 1)))

\* radix of a 0x / 0o / 0b literal, 0 when t is none
PrefixRadix(t) ==
    IF Len(t) >= 2 /\ t[1] = "0"
    THEN IF t[2] \in {"x", "X"} THEN 16
         ELSE IF t[2] \in {"o", "O"} THEN 8
         ELSE IF t[2] \in {"b", "B"} THEN 2
         ELSE 0
    ELSE 0

\* the value of a 0x / 0o / 0b literal: NaN unless digits of its radix follow
RadixLiteral(t, radix) ==
    IF Len(t) >= 3 /\ \A k \in 3..Len(t) : RadixDigitVal(t[k], radix) >= 0
    THEN Finite(DigitsValue(t, 3, Len(t) + 1, radix), 0)
    ELSE NaN

\* a literal counts only when it is the whole string
WholeLiteral(t, r) == IF r.ok /\ r.end = Len(t) + 1 THEN r.num ELSE NaN

\* the number a trimmed string denotes; the empty string denotes 0
TrimmedToNumber(t) ==
    IF t = <<>> THEN Finite(0, 0)
    ELSE IF PrefixRadix(t) # 0 THEN RadixLiteral(t, PrefixRadix(t))
    ELSE WholeLiteral(t, ScanDecimal(t, 1))

\* Number applied to a string (StringToNumber)
StringToNumber(s) == TrimmedToNumber(Trim(s))

(***************************************************************************)
(* JavaScript values.  A value is [t, s, n]: its type tag, its characters  *)
(* when it is a string, its integer when it is a number (1/0 for the       *)
(* booleans true/false).  The numbers stored in records are integers.      *)
(***************************************************************************)
Undefined == [t |-> "undefined", s |-> <<>>, n |-> 0]

Null == [t |-> "null", s |-> <<>>, n |-> 0]

Str(s) == [t |-> "string", s |-> s, n |-> 0]

Num(n) == [t |-> "number", s |-> <<>>, n |-> n]

Bool(b) == [t |-> "boolean", s |-> <<>>, n |-> IF b THEN 1 ELSE 0]

\* a non-null plain object, such as the {latitude, longitude} geo-point
Obj == [t |-> "object", s |-> <<>>, n |-> 0]

\* the decimal digits of a natural number
NatToString(n) ==
    LET digits[k \in 0..n] ==
            IF k < 10 THEN <<DigitChars[k + 1]>>
            ELSE Append(digits[k \div 10], DigitChars[(k % 10) + 1])
    IN  digits[n]

\* Number.prototype.toString of an integer
NumberToString(n) == IF n < 0 THEN <<"-">> \o NatToString(-n) ELSE NatToString(n)

\* String(v)
String(v) ==
    CASE v.t = "string"    -> v.s
      [] v.t = "number"    -> NumberToString(v.n)
      [] v.t = "boolean"   -> IF v.n = 1 THEN <<"t", "r", "u", "e">>
                                         ELSE <<"f", "a", "l", "s", "e">>
      [] v.t = "null"      -> <<"n", "u", "l", "l">>
      [] v.t = "undefined" -> <<"u", "n", "d", "e", "f", "i", "n", "e", "d">>
      [] v.t = "object"    -> <<"[", "o", "b", "j", "e", "c", "t", " ",
                                "O", "b", "j", "e", "c", "t", "]">>

\* Number(v), the coercion isNaN applies to its argument
ToNumber(v) ==
    CASE v.t = "string"    -> StringToNumber(v.s)
      [] v.t = "number"    -> Finite(v.n, 0)
      [] v.t = "boolean"   -> Finite(v.n, 0)
      [] v.t = "null"      -> Finite(0, 0)
      [] v.t = "undefined" -> NaN
      [] v.t = "object"    -> StringToNumber(String(v))

\* the global isNaN(v)
isNaN(v) == ToNumber(v).k = "nan"

\* the global parseFloat(v): v is converted to a string first
parseFloat(v) == ParseFloatString(String(v))

\* a plausible slip: val === null, which lets undefined through
IsNullishStrict(v) == v.t = "null"

\* val == null
IsNullish(v) == v.t \in {"null", "undefined"}

\* record.values[field]: undefined when the record has no such key
GetField(values, field) == IF field \in DOMAIN values THEN values[field] ELSE Undefined

(***************************************************************************)
(* Criterion evaluation: the callback of criteria.every / criteria.some.   *)
(* An outcome is "true", "false" or "throw" (an exception left the         *)
(* callback).                                                              *)
(***************************************************************************)
Outcome(b) == IF b THEN "true" ELSE "false"

\* a plausible slip: the two operands of the comparison swapped
NumericTableSwapped(operator, numVal, numInput) ==
    CASE operator = "equals"         -> NumEq(numInput, numVal)
      [] operator = "greater"        -> NumGt(numInput, numVal)
      [] operator = "less"           -> NumLt(numInput, numVal)
      [] operator = "greaterOrEqual" -> NumGe(numInput, numVal)
      [] operator = "lessOrEqual"    -> NumLe(numInput, numVal)
      [] OTHER                       -> FALSE

\* the switch of the numeric branch
NumericTable(operator, numVal, numInput) ==
    CASE operator = "equals"         -> NumEq(numVal, numInput)
      [] operator = "greater"        -> NumGt(numVal, numInput)
      [] operator = "less"           -> NumLt(numVal, numInput)
      [] operator = "greaterOrEqual" -> NumGe(numVal, numInput)
      [] operator = "lessOrEqual"    -> NumLe(numVal, numInput)
      [] OTHER                       -> FALSE

\* a plausible slip: the case label spelt startsWith, which no criterion carries
StringTableCamelCase(operator, strVal, input) ==
    CASE operator = "equals"     -> strVal = input
      [] operator = "contains"   -> includes(strVal, input)
      [] operator = "startsWith" -> startsWith(strVal, input)
      [] OTHER                   -> FALSE

\* the switch of the string branch
StringTable(operator, strVal, input) ==
    CASE operator = "equals"     -> strVal = input
      [] operator = "contains"   -> includes(strVal, input)
      [] operator = "startswith" -> startsWith(strVal, input)
      [] OTHER                   -> FALSE

\* a plausible slip: the two negations of the guard left out
NumericGuardInverted(val, cvalue) == isNaN(val) /\ isNaN(cvalue)

\* the guard of the numeric branch: !isNaN(val) && !isNaN(c.value)
NumericGuard(val, cvalue) == ~isNaN(val) /\ ~isNaN(cvalue)

\* a plausible slip: val.toLowerCase() called on the value itself, a
\* TypeError for every value that is no string
EvalCriterionMethodCall(record, c) ==
    LET val == GetField(record.values, c.field)
    IN  IF val.t # "string" THEN "throw"
        ELSE IF NumericGuard(val, c.value)
        THEN Outcome(NumericTable(c.operator, parseFloat(val), parseFloat(c.value)))
        ELSE Outcome(StringTable(c.operator, toLowerCase(val.s),
                                 toLowerCase(String(c.value))))

\* a plausible slip: only the record's side is lower-cased
EvalCriterionCaseSensitive(record, c) ==
    LET val == GetField(record.values, c.field)
    IN  IF IsNullish(val) THEN "false"
        ELSE IF NumericGuard(val, c.value)
        THEN Outcome(NumericTable(c.operator, parseFloat(val), parseFloat(c.value)))
        ELSE Outcome(StringTable(c.operator, toLowerCase(String(val)), String(c.value)))

\* a plausible slip: the numeric switch has no default and falls out to the
\* string switch
EvalCriterionFallThrough(record, c) ==
    LET val == GetField(record.values, c.field)
    IN  IF IsNullish(val) THEN "false"
        ELSE IF NumericGuard(val, c.value)
                /\ c.operator \in {"equals", "greater", "less", "greaterOrEqual", "lessOrEqual"}
        THEN Outcome(NumericTable(c.operator, parseFloat(val), parseFloat(c.value)))
        ELSE Outcome(StringTable(c.operator, toLowerCase(String(val)),
                                 toLowerCase(String(c.value))))

\* the callback (c) => {...} for one record
EvalCriterion(record, c) ==
    LET val    == GetField(record.values, c.field)
        strVal == toLowerCase(String(val))
        input  == toLowerCase(String(c.value))
    IN  IF IsNullish(val) THEN "false"
        ELSE IF NumericGuard(val, c.value)
        THEN Outcome(NumericTable(c.operator, parseFloat(val), parseFloat(c.value)))
        ELSE Outcome(StringTable(c.operator, strVal, input))

\* one step of every: the walk goes on only after a true outcome
EveryStep(r, rest) == IF r = "true" THEN rest ELSE r

\* one step of some: the walk goes on only after a false outcome
SomeStep(r, rest) == IF r = "false" THEN rest ELSE r

\* a plausible slip: the walk of every starts at the second criterion
everyOfRest(crit, record) ==
    LET walk[i \in 1..(Len(crit) + 1)] ==
            IF i > Len(crit) THEN "true"
            ELSE IF i = 1 THEN walk[i + 1]
            ELSE EveryStep(EvalCriterion(record, crit[i]), walk[i + 1])
    IN  walk[1]

\* a plausible slip: some stops after the first criterion whatever its outcome
someOfFirst(crit, record) ==
    IF Len(crit) = 0 THEN "false" ELSE EvalCriterion(record, crit[1])

\* Array.prototype.every: the callback runs on the criteria in order and the
\* walk stops at the first outcome that is not true
every(crit, record) ==
    LET walk[i \in 1..(Len(crit) + 1)] ==
            IF i > Len(crit) THEN "true"
            ELSE EveryStep(EvalCriterion(record, crit[i]), walk[i + 1])
    IN  walk[1]

\* Array.prototype.some: the walk stops at the first outcome that is not false
some(crit, record) ==
    LET walk[i \in 1..(Len(crit) + 1)] ==
            IF i > Len(crit) THEN "false"
            ELSE SomeStep(EvalCriterion(record, crit[i]), walk[i + 1])
    IN  walk[1]

\* a plausible slip: the test is for 'OR', and every other value means every
CombinatorOrExact(crit, lg, record) ==
    IF lg = "OR" THEN some(crit, record) ELSE every(crit, record)

\* a plausible slip: the two method names swapped
CombinatorSwapped(crit, lg, record) ==
    IF lg = "AND" THEN some(crit, record) ELSE every(crit, record)

\* criteria[logic === 'AND' ? 'every' : 'some'](...)
Combinator(crit, lg, record) ==
    IF lg = "AND" THEN every(crit, record) ELSE some(crit, record)

\* a plausible slip: the kept records are collected in reverse
FilterStepReversed(r, record, rest) ==
    IF r = "throw" \/ rest.threw THEN [threw |-> TRUE, out |-> <<>>]
    ELSE IF r = "true" THEN [threw |-> FALSE, out |-> rest.out \o <<record>>]
    ELSE rest

\* one step of filter: a record is kept when its callback outcome r is true; an
\* exception of the callback ends the walk over the records
FilterStep(r, record, rest) ==
    IF r = "throw" \/ rest.threw THEN [threw |-> TRUE, out |-> <<>>]
    ELSE IF r = "true" THEN [threw |-> FALSE, out |-> <<record>> \o rest.out]
    ELSE rest

\* originalRecords.filter(...): [threw, out]
filter(recs, crit, lg) ==
    LET walk[i \in 1..(Len(recs) + 1)] ==
            IF i > Len(recs) THEN [threw |-> FALSE, out |-> <<>>]
            ELSE FilterStep(Combinator(crit, lg, recs[i]), recs[i], walk[i + 1])
    IN  walk[1]

(***************************************************************************)
(* The strings that occur in the records and criteria of the model.        *)
(***************************************************************************)
S_Brisbane == <<"B", "r", "i", "s", "b", "a", "n", "e">>

S_Sydney == <<"S", "y", "d", "n", "e", "y">>

S_sydney == <<"s", "y", "d", "n", "e", "y">>

S_B == <<"B">>

S_100 == <<"1", "0", "0">>

S_50 == <<"5", "0">>

S_75 == <<"7", "5">>

S_200 == <<"2", "0", "0">>

S_10 == <<"1", "0">>

S_5 == <<"5">>

S_apple == <<"a", "p", "p", "l", "e">>

S_app == <<"a", "p", "p">>

S_APP == <<"A", "P", "P">>

S_empty == <<>>

S_blank == <<" ">>

S_0x10 == <<"0", "x", "1", "0">>

S_16 == <<"1", "6">>

S_2020 == <<"2", "0", "2", "0">>

S_2020_0 == <<"2", "0", "2", "0", ".", "0">>

S_Infinity == <<"I", "n", "f", "i", "n", "i", "t", "y">>

S_infinity == <<"i", "n", "f", "i", "n", "i", "t", "y">>

S_true == <<"t", "r", "u", "e">>

S_1 == <<"1">>

S_0 == <<"0">>

S_1e1 == <<"1", "e", "1">>

S_5px == <<"5", "p", "x">>

S_minus5 == <<"-", "5">>

S_objectObject == <<"[", "o", "b", "j", "e", "c", "t", " ", "O", "b", "j", "e", "c", "t", "]">>


(***************************************************************************)
(* The data source: the record collections of the forms, as the request    *)
(* /record?form_id=eq.<id>&order=id.desc returns them (newest first).      *)
(* Records are schemaless: a key may be absent, null, a string, a number   *)
(* or a geo-point object.                                                  *)
(***************************************************************************)
Forms == {1, 2, 3, 4}

\* useState(null) and the value of the "Select a form..." item; like null it is falsy
NullForm == 0

Record(id, values) == [id |-> id, values |-> values]

CityRecords ==
    << Record(2, [city |-> Str(S_Sydney), price |-> Str(S_50)]),
       Record(1, [city |-> Str(S_Brisbane), price |-> Str(S_100)]) >>

XRecords ==
    << Record(6, <<>>),
       Record(5, [x |-> Str(S_empty)]),
       Record(4, [x |-> Str(S_apple)]),
       Record(3, [x |-> Str(S_10)]) >>

MixedRecords ==
    << Record(9, [city |-> Null, price |-> Str(S_0x10), x |-> Num(9)]),
       Record(8, [price |-> Num(75), loc |-> Obj]),
       Record(7, [city |-> Str(S_sydney), x |-> Str(S_2020)]) >>

\* what apiRequest resolves to for the records of form f (form 4 has none)
\* the ids of the records the server holds
RecordIds == 1..9

FormRecords(f) ==
    CASE f = 1 -> CityRecords
      [] f = 2 -> XRecords
      [] f = 3 -> MixedRecords
      [] OTHER -> <<>>

(***************************************************************************)
(* The criteria source: the filter builder hands applyFilter an ordered    *)
(* list of criteria and a logic value.                                     *)
(***************************************************************************)
Operators == {"equals", "greater", "less", "greaterOrEqual", "lessOrEqual",
              "contains", "startswith", "endswith"}

Criterion(field, operator, value) == [field |-> field, operator |-> operator, value |-> value]

CriteriaPool ==
    { Criterion("price", "lessOrEqual", Str(S_75)),
      Criterion("city", "startswith", Str(S_B)),
      Criterion("price", "greater", Str(S_200)),
      Criterion("city", "equals", Str(S_sydney)),
      Criterion("x", "greater", Str(S_5)),
      Criterion("x", "contains", Str(S_app)),
      Criterion("x", "equals", Str(S_empty)),
      Criterion("age", "equals", Str(S_5)) }

Logics == {"AND", "OR"}

(***************************************************************************)
(* Schema discovery: the fields prop the component hands to the filter     *)
(* builder, derived from the first displayed record.                       *)
(***************************************************************************)
\* a plausible slip: the type is guessed with parseFloat
FieldTypeByParseFloat(v) == IF parseFloat(v).k = "nan" THEN "text" ELSE "number"

\* isNaN(records[0].values[k]) ? 'text' : 'number'
FieldType(v) == IF isNaN(v) THEN "text" ELSE "number"

\* the fields prop; Object.keys yields each key once
fields(recs) ==
    IF Len(recs) > 0
    THEN {[name |-> k, type |-> FieldType(recs[1].values[k])] : k \in DOMAIN recs[1].values}
    ELSE {}

(***************************************************************************)
(* State.                                                                  *)
(***************************************************************************)
VARIABLES
    records,          \* useState: the displayed records
    originalRecords,  \* useState: the snapshot fetched for the selected form
    filterVisible,    \* useState: the filter builder modal is open
    criteria,         \* the criteria array the filter builder holds and passes to onApply
    logic,            \* the logic value the filter builder holds and passes to onApply
    threw,            \* the last applyFilter call raised an exception
    lastOp,           \* the handler that ran last
    shownBefore,      \* the displayed records as they were when that handler began
    evalIn,           \* [record, c]: the arguments of one callback evaluation
    evalOut,          \* its outcome, "none" before it ran
    selectedFormId,   \* useState: the form chosen in the picker, NullForm for none
    forms,            \* useState: the ids of the forms the picker offers
    loadingForms,     \* useState: the form list has not arrived yet
    loadingRecords,   \* useState: the records spinner is shown
    alertVisible,     \* useState: the alert dialog is shown
    focused,          \* the screen has the navigation focus
    formsInFlight,    \* the number of fetchForms requests awaiting their response
    inFlight,         \* per form, the number of fetchRecords requests awaiting their response
    deleted,          \* the ids of the records the server has removed
    pendingDeletes,   \* per record id, the number of deleteRecord requests awaiting their response
    confirming        \* the id the Confirm Delete dialog is open for, as a set: empty when it is closed

vars == <<records, originalRecords, filterVisible, criteria, logic, threw, lastOp,
          shownBefore, evalIn, evalOut, selectedFormId, forms, loadingForms,
          loadingRecords, alertVisible, focused, formsInFlight, inFlight,
          deleted, pendingDeletes, confirming>>

evalVars == <<evalIn, evalOut>>

fetchVars == <<selectedFormId, forms, loadingForms, loadingRecords, alertVisible,
               focused, formsInFlight, inFlight>>

deleteVars == <<deleted, pendingDeletes, confirming>>

\* nothing was deleted, no request is out and no dialog is open
DeleteInit ==
    /\ deleted = {}
    /\ pendingDeletes = [id \in RecordIds |-> 0]
    /\ confirming = {}

NoEval == [record |-> Record(0, <<>>), c |-> Criterion("x", "equals", Str(S_empty))]

ScreenInit ==
    /\ records = <<>>
    /\ originalRecords = <<>>
    /\ filterVisible = FALSE
    /\ criteria = <<>>
    /\ logic = "AND"
    /\ threw = FALSE
    /\ lastOp = "init"
    /\ shownBefore = <<>>

\* the component as constructed, before the screen is focused for the first time
ComponentInit ==
    /\ selectedFormId = NullForm
    /\ forms = {}
    /\ loadingForms = TRUE
    /\ loadingRecords = FALSE
    /\ alertVisible = FALSE
    /\ focused = FALSE
    /\ formsInFlight = 0
    /\ inFlight = [f \in Forms |-> 0]

\* the focused screen once the first fetchForms has delivered the form list
FormsLoaded ==
    /\ selectedFormId = NullForm
    /\ forms = Forms
    /\ loadingForms = FALSE
    /\ loadingRecords = FALSE
    /\ alertVisible = FALSE
    /\ focused = TRUE
    /\ formsInFlight = 0
    /\ inFlight = [f \in Forms |-> 0]

Init ==
    /\ ScreenInit
    /\ FormsLoaded
    /\ evalIn = NoEval
    /\ evalOut = "none"
    /\ DeleteInit

(***************************************************************************)
(* Handlers.                                                               *)
(***************************************************************************)
\* fetchRecords(f) whose request succeeds: both lists become the response
FetchRecords(f) ==
    /\ records' = FormRecords(f)
    /\ originalRecords' = FormRecords(f)
    /\ lastOp' = "fetchRecords"
    /\ shownBefore' = records
    /\ UNCHANGED <<filterVisible, criteria, logic, threw, evalVars, deleteVars, fetchVars>>

\* the "Open Filter Builder" button, rendered once the form list has arrived
\* and while records are displayed
OpenFilter ==
    /\ focused
    /\ ~loadingForms
    /\ Len(records) > 0
    /\ ~filterVisible
    /\ filterVisible' = TRUE
    /\ lastOp' = "openFilter"
    /\ shownBefore' = records
    /\ UNCHANGED <<records, originalRecords, criteria, logic, threw, evalVars, deleteVars, fetchVars>>

\* onClose of the filter builder
CloseFilter ==
    /\ filterVisible
    /\ filterVisible' = FALSE
    /\ lastOp' = "closeFilter"
    /\ shownBefore' = records
    /\ UNCHANGED <<records, originalRecords, criteria, logic, threw, evalVars, deleteVars, fetchVars>>

\* the user adds a criterion row in the open filter builder
AddCriterion(c) ==
    /\ filterVisible
    /\ Len(criteria) < MaxCriteria
    /\ criteria' = Append(criteria, c)
    /\ lastOp' = "editFilter"
    /\ shownBefore' = records
    /\ UNCHANGED <<records, originalRecords, filterVisible, logic, threw, evalVars, deleteVars, fetchVars>>

\* the user removes criterion row i in the open filter builder
RemoveCriterion(i) ==
    /\ filterVisible
    /\ i \in 1..Len(criteria)
    /\ criteria' = SubSeq(criteria, 1, i - 1) \o SubSeq(criteria, i + 1, Len(criteria))
    /\ lastOp' = "editFilter"
    /\ shownBefore' = records
    /\ UNCHANGED <<records, originalRecords, filterVisible, logic, threw, evalVars, deleteVars, fetchVars>>

\* the user switches the AND/OR selector of the open filter builder
SetLogic(l) ==
    /\ filterVisible
    /\ l # logic
    /\ logic' = l
    /\ lastOp' = "editFilter"
    /\ shownBefore' = records
    /\ UNCHANGED <<records, originalRecords, filterVisible, criteria, threw, evalVars, deleteVars, fetchVars>>

\* setRecords(filtered), which an exception of the filter never reaches
SetFiltered(recs, original, crit, f) ==
    IF f.threw
    THEN [records |-> recs, originalRecords |-> original, criteria |-> crit, threw |-> TRUE]
    ELSE [records |-> f.out, originalRecords |-> original, criteria |-> crit, threw |-> FALSE]

\* a plausible slip: no early return, so an empty list goes through every / some
applyFilterNoEarlyReturn(recs, original, crit, lg) ==
    SetFiltered(recs, original, crit, filter(original, crit, lg))

\* a plausible slip: the filtered list is stored as the snapshot too
applyFilterNarrowsSnapshot(recs, original, crit, lg) ==
    IF Len(crit) = 0
    THEN [records |-> original, originalRecords |-> original,
          criteria |-> crit, threw |-> FALSE]
    ELSE SetFiltered(recs, filter(original, crit, lg).out, crit, filter(original, crit, lg))

\* a plausible slip: the filter runs on the displayed list, not on the snapshot
applyFilterOnDisplayed(recs, original, crit, lg) ==
    IF Len(crit) = 0
    THEN [records |-> original, originalRecords |-> original,
          criteria |-> crit, threw |-> FALSE]
    ELSE SetFiltered(recs, original, crit, filter(recs, crit, lg))

\* applyFilter(criteria, logic): the component's two lists, the criteria array
\* and whether the call raised, as they are when the call is over
applyFilter(recs, original, crit, lg) ==
    IF Len(crit) = 0
    THEN [records |-> original, originalRecords |-> original,
          criteria |-> crit, threw |-> FALSE]
    ELSE SetFiltered(recs, original, crit, filter(original, crit, lg))

\* the state the component and the builder are left in by a call
Commit(r) ==
    /\ records' = r.records
    /\ originalRecords' = r.originalRecords
    /\ criteria' = r.criteria
    /\ threw' = r.threw

\* onApply of the filter builder: applyFilter(criteria, logic)
ApplyFilter ==
    /\ filterVisible
    /\ Commit(applyFilter(records, originalRecords, criteria, logic))
    /\ lastOp' = "applyFilter"
    /\ shownBefore' = records
    /\ UNCHANGED <<filterVisible, logic, evalVars, deleteVars, fetchVars>>

Next ==
    \/ \E f \in Forms : FetchRecords(f)
    \/ OpenFilter
    \/ CloseFilter
    \/ \E c \in CriteriaPool : AddCriterion(c)
    \/ \E i \in 1..MaxCriteria : RemoveCriterion(i)
    \/ \E l \in Logics : SetLogic(l)
    \/ ApplyFilter

Spec == Init /\ [][Next]_vars


(***************************************************************************)
(* Calls of applyFilter with any arguments: between two calls the builder  *)
(* may hand over any criteria list and any logic value, also one that is   *)
(* neither 'AND' nor 'OR'.                                                 *)
(***************************************************************************)
\* stands for a logic argument that is missing (undefined)
NoLogic == "undefined"

LogicValues == {"AND", "OR", "and", "Or", NoLogic}

CallPool ==
    { Criterion("price", "lessOrEqual", Str(S_75)),
      Criterion("city", "startswith", Str(S_B)),
      Criterion("x", "greater", Str(S_5)),
      Criterion("x", "contains", Str(S_app)) }

\* the criteria lists of at most MaxCriteria rows
CallLists == UNION {[1..n -> CallPool] : n \in 0..MaxCriteria}

\* the builder holds another criteria list and logic value
HandOver(crit, lg) ==
    /\ filterVisible
    /\ <<crit, lg>> # <<criteria, logic>>
    /\ criteria' = crit
    /\ logic' = lg
    /\ lastOp' = "editFilter"
    /\ shownBefore' = records
    /\ UNCHANGED <<records, originalRecords, filterVisible, threw, evalVars, deleteVars, fetchVars>>

CallNext ==
    \/ \E f \in Forms : FetchRecords(f)
    \/ OpenFilter
    \/ \E crit \in CallLists : \E lg \in LogicValues : HandOver(crit, lg)
    \/ ApplyFilter

CallSpec == Init /\ [][CallNext]_vars


(***************************************************************************)
(* The life cycle of the snapshot: the screen gains and loses focus, the   *)
(* user picks a form, and the fetchForms and fetchRecords requests the     *)
(* focus effect starts are answered later, in any order.                   *)
(***************************************************************************)
\* the number of fetchRecords requests in flight
InFlightTotal(fl) ==
    LET sum[i \in 0..Cardinality(Forms)] == IF i = 0 THEN 0 ELSE sum[i - 1] + fl[i]
    IN  sum[Cardinality(Forms)]

\* what an apiRequest can come to: a JSON array, JSON that is no array, or a
\* rejection (network failure, or a status that is not ok)
ArrayResponse(body) == [kind |-> "array", body |-> body]

ObjectResponse == [kind |-> "object", body |-> <<>>]

Rejection == [kind |-> "error", body |-> <<>>]

\* the rows of form f the server still holds, newest first
ServerRecords(f, gone) == SelectSeq(FormRecords(f), LAMBDA r : r.id \notin gone)

RecordResponses(f) == {ArrayResponse(ServerRecords(f, deleted)), ObjectResponse, Rejection}

FormResponses == {"array", "object", "error"}

\* Array.isArray(data) ? data : []
ArrayOrEmpty(data) == IF data.kind = "array" THEN data.body ELSE <<>>

\* a plausible slip: only the snapshot is set from the response
fetchRecordsSnapshotOnly(recs, original, alert, data) ==
    IF data.kind = "error"
    THEN [records |-> recs, originalRecords |-> original,
          alertVisible |-> TRUE, loadingRecords |-> FALSE]
    ELSE [records |-> recs, originalRecords |-> ArrayOrEmpty(data),
          alertVisible |-> alert, loadingRecords |-> FALSE]

\* a plausible slip: the catch block empties the two lists
fetchRecordsClearsOnError(recs, original, alert, data) ==
    IF data.kind = "error"
    THEN [records |-> <<>>, originalRecords |-> <<>>,
          alertVisible |-> TRUE, loadingRecords |-> FALSE]
    ELSE [records |-> ArrayOrEmpty(data), originalRecords |-> ArrayOrEmpty(data),
          alertVisible |-> alert, loadingRecords |-> FALSE]

\* fetchRecords from its await on: the two setters, or the catch block with its
\* alert, and the finally block
fetchRecords(recs, original, alert, data) ==
    IF data.kind = "error"
    THEN [records |-> recs, originalRecords |-> original,
          alertVisible |-> TRUE, loadingRecords |-> FALSE]
    ELSE [records |-> ArrayOrEmpty(data), originalRecords |-> ArrayOrEmpty(data),
          alertVisible |-> alert, loadingRecords |-> FALSE]

\* fetchRecords(formId) up to its await: the spinner is set and the request leaves
StartFetchRecords(formId) ==
    /\ InFlightTotal(inFlight) < MaxInFlight
    /\ inFlight' = [inFlight EXCEPT ![formId] = @ + 1]
    /\ loadingRecords' = TRUE

\* fetchForms() up to its await
StartFetchForms ==
    /\ formsInFlight < MaxFormsInFlight
    /\ formsInFlight' = formsInFlight + 1

\* the focus effect: fetchForms(); if (selectedFormId) fetchRecords(selectedFormId)
FocusEffect(formId) ==
    /\ StartFetchForms
    /\ IF formId # NullForm
       THEN StartFetchRecords(formId)
       ELSE UNCHANGED <<inFlight, loadingRecords>>

\* a plausible slip: the effect only reloads the form list when the screen
\* regains focus
FocusFormsOnly ==
    /\ ~focused
    /\ focused' = TRUE
    /\ StartFetchForms
    /\ lastOp' = "focus"
    /\ shownBefore' = records
    /\ UNCHANGED <<records, originalRecords, filterVisible, criteria, logic, threw, evalVars, deleteVars,
                   selectedFormId, forms, loadingForms, alertVisible, inFlight,
                   loadingRecords>>

\* the screen gains focus: useFocusEffect runs its effect
Focus ==
    /\ ~focused
    /\ focused' = TRUE
    /\ FocusEffect(selectedFormId)
    /\ lastOp' = "focus"
    /\ shownBefore' = records
    /\ UNCHANGED <<records, originalRecords, filterVisible, criteria, logic, threw, evalVars, deleteVars,
                   selectedFormId, forms, loadingForms, alertVisible>>

\* the user navigates to another screen; the component stays mounted
Blur ==
    /\ focused
    /\ focused' = FALSE
    /\ lastOp' = "blur"
    /\ shownBefore' = records
    /\ UNCHANGED <<records, originalRecords, filterVisible, criteria, logic, threw, evalVars, deleteVars,
                   selectedFormId, forms, loadingForms, loadingRecords, alertVisible,
                   formsInFlight, inFlight>>

\* onValueChange of the picker: setSelectedFormId(value); the effect's callback
\* depends on selectedFormId, so the focused screen runs the effect again
SelectForm(value) ==
    /\ focused
    /\ ~loadingForms
    /\ value \in forms \cup {NullForm}
    /\ value # selectedFormId
    /\ selectedFormId' = value
    /\ FocusEffect(value)
    /\ lastOp' = "selectForm"
    /\ shownBefore' = records
    /\ UNCHANGED <<records, originalRecords, filterVisible, criteria, logic, threw, evalVars, deleteVars,
                   forms, loadingForms, alertVisible, focused>>

\* a fetchForms request is answered: setForms unless it was rejected, then the
\* finally block
FormsResponse(kind) ==
    /\ formsInFlight > 0
    /\ formsInFlight' = formsInFlight - 1
    /\ forms' = IF kind = "array" THEN Forms ELSE IF kind = "object" THEN {} ELSE forms
    /\ loadingForms' = FALSE
    /\ lastOp' = "fetchForms"
    /\ shownBefore' = records
    /\ UNCHANGED <<records, originalRecords, filterVisible, criteria, logic, threw, evalVars, deleteVars,
                   selectedFormId, loadingRecords, alertVisible, focused, inFlight>>

\* the state fetchRecords leaves behind
Settle(r) ==
    /\ records' = r.records
    /\ originalRecords' = r.originalRecords
    /\ alertVisible' = r.alertVisible
    /\ loadingRecords' = r.loadingRecords

\* a fetchRecords request for form f is answered
RecordsResponse(f, data) ==
    /\ inFlight[f] > 0
    /\ inFlight' = [inFlight EXCEPT ![f] = @ - 1]
    /\ Settle(fetchRecords(records, originalRecords, alertVisible, data))
    /\ lastOp' = IF data.kind = "error" THEN "fetchFailed" ELSE "fetchRecords"
    /\ shownBefore' = records
    /\ UNCHANGED <<filterVisible, criteria, logic, threw, evalVars, deleteVars, selectedFormId, forms,
                   loadingForms, focused, formsInFlight>>

\* onConfirm of the alert
DismissAlert ==
    /\ alertVisible
    /\ alertVisible' = FALSE
    /\ lastOp' = "dismissAlert"
    /\ shownBefore' = records
    /\ UNCHANGED <<records, originalRecords, filterVisible, criteria, logic, threw, evalVars, deleteVars,
                   selectedFormId, forms, loadingForms, loadingRecords, focused,
                   formsInFlight, inFlight>>

\* the criterion the user enters in the life cycle; the builder holds it or nothing
LifecyclePool == {Criterion("price", "lessOrEqual", Str(S_75))}

LifecycleInit ==
    /\ ScreenInit
    /\ ComponentInit
    /\ evalIn = NoEval
    /\ evalOut = "none"
    /\ DeleteInit

LifecycleNext ==
    \/ Focus
    \/ Blur
    \/ \E value \in Forms \cup {NullForm} : SelectForm(value)
    \/ \E kind \in FormResponses : FormsResponse(kind)
    \/ \E f \in Forms : \E data \in RecordResponses(f) : RecordsResponse(f, data)
    \/ DismissAlert
    \/ OpenFilter
    \/ CloseFilter
    \/ \E c \in LifecyclePool : Len(criteria) = 0 /\ AddCriterion(c)
    \/ RemoveCriterion(1)
    \/ ApplyFilter

LifecycleSpec == LifecycleInit /\ [][LifecycleNext]_vars

(***************************************************************************)
(* Deleting a record: handleDelete asks for confirmation; the Delete       *)
(* button of the dialog sends the request and, once it is answered,        *)
(* removes the record from both lists.                                     *)
(***************************************************************************)
PendingTotal(pd) ==
    LET sum[i \in 0..Cardinality(RecordIds)] == IF i = 0 THEN 0 ELSE sum[i - 1] + pd[i]
    IN  sum[Cardinality(RecordIds)]

\* prev.filter((r) => r.id !== recordId)
WithoutId(prev, recordId) == SelectSeq(prev, LAMBDA r : r.id # recordId)

\* a plausible slip: the record is removed from the snapshot only
onPressSnapshotOnly(recs, original, alert, recordId, ok) ==
    IF ok
    THEN [records |-> recs, originalRecords |-> WithoutId(original, recordId),
          alertVisible |-> TRUE]
    ELSE [records |-> recs, originalRecords |-> original, alertVisible |-> TRUE]

\* a plausible slip: the record is removed from the displayed list only
onPressViewOnly(recs, original, alert, recordId, ok) ==
    IF ok
    THEN [records |-> WithoutId(recs, recordId), originalRecords |-> original,
          alertVisible |-> TRUE]
    ELSE [records |-> recs, originalRecords |-> original, alertVisible |-> TRUE]

\* onPress of the dialog's Delete button from its await on: the two functional
\* updates and the success alert, or the catch block with its error alert
onPress(recs, original, alert, recordId, ok) ==
    IF ok
    THEN [records |-> WithoutId(recs, recordId),
          originalRecords |-> WithoutId(original, recordId),
          alertVisible |-> TRUE]
    ELSE [records |-> recs, originalRecords |-> original, alertVisible |-> TRUE]

\* the card of the record is on the screen with its Delete button
CardRendered(recordId) ==
    /\ focused
    /\ ~loadingForms
    /\ selectedFormId # NullForm
    /\ ~loadingRecords
    /\ \E i \in 1..Len(records) : records[i].id = recordId

\* handleDelete(recordId): the Confirm Delete dialog opens
handleDelete(recordId) ==
    /\ CardRendered(recordId)
    /\ confirming = {}
    /\ confirming' = {recordId}
    /\ lastOp' = "handleDelete"
    /\ shownBefore' = records
    /\ UNCHANGED <<records, originalRecords, filterVisible, criteria, logic, threw, evalVars,
                   fetchVars, deleted, pendingDeletes>>

\* the Cancel button of the dialog
PressCancel ==
    /\ confirming # {}
    /\ confirming' = {}
    /\ lastOp' = "cancelDelete"
    /\ shownBefore' = records
    /\ UNCHANGED <<records, originalRecords, filterVisible, criteria, logic, threw, evalVars,
                   fetchVars, deleted, pendingDeletes>>

\* the Delete button of the dialog, up to its await: deleteRecord(recordId) leaves
PressDelete ==
    /\ PendingTotal(pendingDeletes) + Cardinality(deleted) < MaxDeletes
    /\ \E recordId \in confirming :
           pendingDeletes' = [pendingDeletes EXCEPT ![recordId] = @ + 1]
    /\ confirming' = {}
    /\ lastOp' = "pressDelete"
    /\ shownBefore' = records
    /\ UNCHANGED <<records, originalRecords, filterVisible, criteria, logic, threw, evalVars,
                   fetchVars, deleted>>

\* a deleteRecord request is answered: the server removed the row (or had no such
\* row any more) and apiRequest returns null, or the request failed and it throws
DeleteResponse(recordId, ok) ==
    /\ pendingDeletes[recordId] > 0
    /\ pendingDeletes' = [pendingDeletes EXCEPT ![recordId] = @ - 1]
    /\ deleted' = IF ok THEN deleted \cup {recordId} ELSE deleted
    /\ LET r == onPress(records, originalRecords, alertVisible, recordId, ok)
       IN  /\ records' = r.records
           /\ originalRecords' = r.originalRecords
           /\ alertVisible' = r.alertVisible
    /\ lastOp' = IF ok THEN "deleteRecord" ELSE "deleteFailed"
    /\ shownBefore' = records
    /\ UNCHANGED <<filterVisible, criteria, logic, threw, evalVars, selectedFormId, forms,
                   loadingForms, loadingRecords, focused, formsInFlight, inFlight,
                   confirming>>

\* the forms the user switches between while deleting records: one with three
\* records and one with none
DeleteForms == {3, 4}

\* the screen with its forms loaded.  The user picks a form once the requests of
\* the previous pick are answered; while the confirmation dialog is open the
\* user can only answer it, and responses keep arriving
\* no confirmation dialog is open
NoDialog == confirming = {}

DeleteNext ==
    \/ /\ NoDialog
       /\ InFlightTotal(inFlight) = 0
       /\ formsInFlight = 0
       /\ \E value \in DeleteForms \cup {NullForm} : SelectForm(value)
    \/ NoDialog /\ DismissAlert
    \/ NoDialog /\ OpenFilter
    \/ NoDialog /\ CloseFilter
    \/ \E c \in LifecyclePool : NoDialog /\ Len(criteria) = 0 /\ AddCriterion(c)
    \/ NoDialog /\ RemoveCriterion(1)
    \/ NoDialog /\ ApplyFilter
    \/ \E recordId \in RecordIds : handleDelete(recordId)
    \/ PressCancel
    \/ PressDelete
    \/ \E kind \in FormResponses : FormsResponse(kind)
    \/ \E f \in Forms : \E data \in RecordResponses(f) : RecordsResponse(f, data)
    \/ \E recordId \in RecordIds : \E ok \in BOOLEAN : DeleteResponse(recordId, ok)

DeleteSpec == Init /\ [][DeleteNext]_vars


(***************************************************************************)
(* The callback alone: one evaluation of a criterion on a record, its      *)
(* arguments drawn from the values a record field and a criterion can      *)
(* hold.                                                                   *)
(***************************************************************************)
EvalStrings ==
    {S_10, S_5, S_apple, S_APP, S_Sydney, S_sydney, S_empty, S_blank, S_0x10, S_16,
     S_2020, S_2020_0, S_Infinity, S_infinity, S_true, S_1, S_0, S_1e1, S_5px, S_minus5,
     S_objectObject}

\* the values of field x in a record; Undefined stands for a record without the key
EvalFieldValues ==
    {Undefined, Null, Obj, Bool(TRUE), Bool(FALSE), Num(10), Num(0)}
        \cup {Str(s) : s \in EvalStrings}

EvalRecord(v) == IF v = Undefined THEN Record(0, <<>>) ELSE Record(0, [x |-> v])

EvalInputs ==
    { [record |-> EvalRecord(v), c |-> Criterion("x", o, Str(s))] :
        v \in EvalFieldValues, o \in Operators, s \in EvalStrings }

EvalInit ==
    /\ ScreenInit
    /\ FormsLoaded
    /\ evalIn \in EvalInputs
    /\ evalOut = "none"
    /\ DeleteInit

\* the callback runs once on its arguments
Evaluate ==
    /\ evalOut = "none"
    /\ evalOut' = EvalCriterion(evalIn.record, evalIn.c)
    /\ UNCHANGED <<records, originalRecords, filterVisible, criteria, logic, threw,
                   lastOp, shownBefore, evalIn, fetchVars, deleteVars>>

EvalNext == Evaluate

EvalSpec == EvalInit /\ [][EvalNext]_vars


(***************************************************************************)
(* Properties.  The reference definitions below state what a call should   *)
(* produce with quantifiers over the criteria and the records; they share  *)
(* only the single-criterion callback with the handler.                    *)
(***************************************************************************)
InSeq(x, s) == \E j \in 1..Len(s) : s[j] = x

\* the outcome of criterion k of the list for the record is true
Holds(record, crit, k) == EvalCriterion(record, crit[k]) = "true"

\* the record satisfies the combinator over the whole list
Satisfies(record, crit, lg) ==
    IF lg = "AND" THEN \A k \in 1..Len(crit) : Holds(record, crit, k)
                  ELSE \E k \in 1..Len(crit) : Holds(record, crit, k)

\* the positions of the snapshot a call keeps
KeptIndexes(recs, crit, lg) ==
    IF Len(crit) = 0 THEN 1..Len(recs)
    ELSE {i \in 1..Len(recs) : Satisfies(recs[i], crit, lg)}

\* the j-th smallest element of a set of positions
NthIndex(K, j) == CHOOSE i \in K : Cardinality({k \in K : k < i}) = j - 1

\* the records at the given positions, in snapshot order
Pick(recs, K) == [j \in 1..Cardinality(K) |-> recs[NthIndex(K, j)]]

Expected(recs, crit, lg) == Pick(recs, KeptIndexes(recs, crit, lg))

AfterApply == lastOp = "applyFilter"

\* C1: after applyFilter with a non-empty criteria list, a record of the
\* snapshot is displayed iff every criterion is true for it under AND, and iff
\* at least one criterion is true for it under OR.
C1_Combinator ==
    (AfterApply /\ Len(criteria) > 0) =>
        \A i \in 1..Len(originalRecords) :
            InSeq(originalRecords[i], records)
                <=> Satisfies(originalRecords[i], criteria, logic)

\* C1 witness: a two-criteria AND filter kept some records and dropped others.
C1_Witness ==
    /\ AfterApply
    /\ Len(criteria) = 2
    /\ criteria[1] # criteria[2]
    /\ logic = "AND"
    /\ Len(records) > 0
    /\ Len(records) < Len(originalRecords)

\* C2: applyFilter with an empty criteria list displays the snapshot itself,
\* whatever the logic value: same records, same order, never an empty list
\* instead of a non-empty snapshot.
C2_EmptyIsIdentity ==
    (AfterApply /\ Len(criteria) = 0) => records = originalRecords

\* C2 witness: an empty list was applied under OR to a snapshot of several records.
C2_Witness ==
    /\ AfterApply
    /\ Len(criteria) = 0
    /\ logic = "OR"
    /\ Len(originalRecords) >= 2
    /\ records = originalRecords

\* C3: the displayed list after applyFilter is a subsequence of the snapshot:
\* it holds each kept position of the snapshot once, in snapshot order (the
\* kept positions are those that satisfy the combinator; all of them for an
\* empty criteria list).
C3_Subsequence ==
    AfterApply =>
        /\ Len(records) = Cardinality(KeptIndexes(originalRecords, criteria, logic))
        /\ \A j \in 1..Len(records) :
              records[j] =
                  originalRecords[NthIndex(KeptIndexes(originalRecords, criteria, logic), j)]
        /\ \A j1, j2 \in 1..Len(records) :
              j1 < j2 =>
                  \E i1, i2 \in 1..Len(originalRecords) :
                      /\ i1 < i2
                      /\ originalRecords[i1] = records[j1]
                      /\ originalRecords[i2] = records[j2]

\* C3 witness: a filter kept at least two records of a larger snapshot.
C3_Witness ==
    /\ AfterApply
    /\ Len(criteria) > 0
    /\ Len(records) >= 2
    /\ Len(records) < Len(originalRecords)

\* C4: every applyFilter call displays the filter of the snapshot by the
\* criteria and logic of that call alone, whatever was displayed before it.
C4_NotCumulative ==
    [][lastOp' = "applyFilter" => records' = Expected(originalRecords, criteria, logic)]_vars

\* C4 witness: a call displayed more records than were displayed before it: an
\* empty criteria list after a filter that had matched no record.
C4_Witness ==
    /\ AfterApply
    /\ Len(criteria) = 0
    /\ shownBefore = <<>>
    /\ Len(records) >= 2
    /\ records = originalRecords

\* the value the callback looks up
EvalVal == GetField(evalIn.record.values, evalIn.c.field)

Evaluated == evalOut # "none"

\* C5: a criterion whose field is absent from the record, or null in it, is
\* false for every operator and criterion value, and its evaluation does not throw.
C5_MissingFieldIsFalse ==
    (Evaluated /\ EvalVal.t \in {"undefined", "null"}) => evalOut = "false"

\* C5 witness: a criterion that every string contains was evaluated on a record
\* without the field.
C5_Witness ==
    /\ Evaluated
    /\ "x" \notin DOMAIN evalIn.record.values
    /\ evalIn.c.operator = "contains"
    /\ evalIn.c.value = Str(S_empty)
    /\ evalOut = "false"

NumericOperators == {"equals", "greater", "less", "greaterOrEqual", "lessOrEqual"}

StringOperators == {"equals", "contains", "startswith"}

\* the string table on the two lower-cased string conversions
ByStrings(val, c) ==
    StringTable(c.operator, toLowerCase(String(val)), toLowerCase(String(c.value)))

\* numeric dispatch when "parses as a valid number" is read as Number(): the
\* numbers compared are the coerced ones
DispatchByCoercion(val, c) ==
    IF ~isNaN(val) /\ ~isNaN(c.value)
    THEN NumericTable(c.operator, ToNumber(val), ToNumber(c.value))
    ELSE ByStrings(val, c)

\* numeric dispatch when "parses as a valid number" is read as parseFloat(): a
\* value is numeric when the parser yields a number
DispatchByParser(val, c) ==
    IF parseFloat(val).k # "nan" /\ parseFloat(c.value).k # "nan"
    THEN NumericTable(c.operator, parseFloat(val), parseFloat(c.value))
    ELSE ByStrings(val, c)

\* C6: the numeric table is used exactly when both the field value and the
\* criterion value parse as valid numbers, and then compares the two parsed
\* numbers; otherwise the string table is used.  Stated for both readings of
\* "parses as a valid number": the outcome must agree with one of them.
C6_NumericDispatch ==
    (Evaluated /\ EvalVal.t \notin {"undefined", "null"}) =>
        evalOut \in {Outcome(DispatchByCoercion(EvalVal, evalIn.c)),
                     Outcome(DispatchByParser(EvalVal, evalIn.c))}

\* the values of the model that differ from v in letter case only
CaseVariants(v) ==
    IF v.t = "string"
    THEN {Str(s) : s \in {u \in EvalStrings : toLowerCase(u) = toLowerCase(v.s)}}
    ELSE {v}

\* the outcome with the two sides replaced
OutcomeFor(v2, c2) == EvalCriterion(EvalRecord(v2), Criterion("x", evalIn.c.operator, c2))

StringMode == Evaluated /\ EvalVal.t \notin {"undefined", "null"}
                        /\ ~NumericGuard(EvalVal, evalIn.c.value)

\* C7 as stated: a criterion that is not numerically comparable is decided by
\* the string table on the lower-cased strings, and its outcome stays the same
\* under every change of letter case of either side.
C7_StringDispatch ==
    StringMode =>
        /\ evalOut = Outcome(ByStrings(EvalVal, evalIn.c))
        /\ \A v2 \in CaseVariants(EvalVal), c2 \in CaseVariants(evalIn.c.value) :
              OutcomeFor(v2, c2) = evalOut

\* C7 amended: the outcome stays the same under every change of letter case
\* that leaves the pair not numerically comparable.
C7_StringDispatchAmended ==
    StringMode =>
        /\ evalOut = Outcome(ByStrings(EvalVal, evalIn.c))
        /\ \A v2 \in CaseVariants(EvalVal), c2 \in CaseVariants(evalIn.c.value) :
              ~NumericGuard(v2, c2) => OutcomeFor(v2, c2) = evalOut

\* C7 witness: "Sydney" equals "sydney" was evaluated and is true.
C7_Witness ==
    /\ Evaluated
    /\ EvalVal = Str(S_Sydney)
    /\ evalIn.c.operator = "equals"
    /\ evalIn.c.value = Str(S_sydney)
    /\ evalOut = "true"

\* C8: in numeric mode every operator outside the numeric table is false, in
\* string mode every operator outside the string table is false, and neither
\* evaluation throws.
C8_TypeMismatchIsFalse ==
    (Evaluated /\ EvalVal.t \notin {"undefined", "null"}) =>
        /\ evalOut # "throw"
        /\ (NumericGuard(EvalVal, evalIn.c.value) /\ evalIn.c.operator \notin NumericOperators)
              => evalOut = "false"
        /\ (~NumericGuard(EvalVal, evalIn.c.value) /\ evalIn.c.operator \notin StringOperators)
              => evalOut = "false"

\* C8 witness: "10" contains "1" was evaluated in numeric mode, where the
\* substring test would have held.
C8_Witness ==
    /\ Evaluated
    /\ EvalVal = Str(S_10)
    /\ evalIn.c.operator = "contains"
    /\ evalIn.c.value = Str(S_1)
    /\ NumericGuard(EvalVal, evalIn.c.value)
    /\ ByStrings(EvalVal, evalIn.c)
    /\ evalOut = "false"

\* criterion k of the list cannot be evaluated on the record: its field is
\* absent or null there
Unevaluable(record, crit, k) == GetField(record.values, crit[k].field).t \in {"undefined", "null"}

\* C9: no applyFilter call raises, and a record for which some criterion cannot
\* be evaluated is still decided by the other criteria: every record that
\* satisfies the combinator is displayed.
C9_NeverRaises ==
    /\ ~threw
    /\ (AfterApply /\ Len(criteria) > 0) =>
          \A i \in 1..Len(originalRecords) :
              Satisfies(originalRecords[i], criteria, logic)
                  => InSeq(originalRecords[i], records)

\* C9 witness: under OR a record is displayed although one of the criteria
\* names a field the record does not have, and another record was dropped.
C9_Witness ==
    /\ AfterApply
    /\ logic = "OR"
    /\ Len(criteria) = 2
    /\ Len(records) < Len(originalRecords)
    /\ \E j \in 1..Len(records) : \E k \in 1..2 : Unevaluable(records[j], criteria, k)

\* C10: an applyFilter call leaves the snapshot and the criteria list it was
\* given as they were; of the component's state only the displayed list changes.
C10_InputsUnchanged ==
    [][lastOp' = "applyFilter" =>
          /\ originalRecords' = originalRecords
          /\ criteria' = criteria
          /\ logic' = logic
          /\ filterVisible' = filterVisible]_vars

\* C10 witness: a filter that dropped records was applied.
C10_Witness ==
    /\ AfterApply
    /\ Len(criteria) > 0
    /\ Len(records) < Len(originalRecords)
    /\ Len(shownBefore) = Len(originalRecords)

OtherLogic(lg) == IF lg = "AND" THEN "OR" ELSE "AND"

\* the result of a call on the current snapshot with another criteria list
ResultOf(crit, lg) == applyFilter(shownBefore, originalRecords, crit, lg).records

\* C11: a call with a single criterion displays the same list as the call with
\* that criterion under the other logic would.
C11_SingleCriterionLogic ==
    (AfterApply /\ Len(criteria) = 1) => records = ResultOf(criteria, OtherLogic(logic))

\* C11 witness: a single criterion was applied under OR and kept some records
\* and dropped others.
C11_Witness ==
    /\ AfterApply
    /\ Len(criteria) = 1
    /\ logic = "OR"
    /\ Len(records) > 0
    /\ Len(records) < Len(originalRecords)

\* C12: every record displayed after a call with [c1, c2] under AND is in the
\* result of [c1] under AND and in the result of [c2] under AND.
C12_AndIsSubset ==
    (AfterApply /\ Len(criteria) = 2 /\ logic = "AND") =>
        \A j \in 1..Len(records) :
            /\ InSeq(records[j], ResultOf(<<criteria[1]>>, "AND"))
            /\ InSeq(records[j], ResultOf(<<criteria[2]>>, "AND"))

\* C12 witness: two criteria under AND kept a record, and each of them alone
\* keeps more.
C12_Witness ==
    /\ AfterApply
    /\ Len(criteria) = 2
    /\ logic = "AND"
    /\ Len(records) > 0
    /\ Len(records) < Len(ResultOf(<<criteria[1]>>, "AND"))
    /\ Len(records) < Len(ResultOf(<<criteria[2]>>, "AND"))

\* C13: every record in the result of [c1] under AND, and every record in the
\* result of [c2] under AND, is displayed after a call with [c1, c2] under OR.
C13_OrIsSuperset ==
    (AfterApply /\ Len(criteria) = 2 /\ logic = "OR") =>
        \A k \in 1..2 :
            \A j \in 1..Len(ResultOf(<<criteria[k]>>, "AND")) :
                InSeq(ResultOf(<<criteria[k]>>, "AND")[j], records)

\* C13 witness: two criteria under OR display more than either alone, and not
\* the whole snapshot.
C13_Witness ==
    /\ AfterApply
    /\ Len(criteria) = 2
    /\ logic = "OR"
    /\ Len(ResultOf(<<criteria[1]>>, "AND")) > 0
    /\ Len(ResultOf(<<criteria[2]>>, "AND")) > 0
    /\ Len(records) > Len(ResultOf(<<criteria[1]>>, "AND"))
    /\ Len(records) > Len(ResultOf(<<criteria[2]>>, "AND"))
    /\ Len(records) < Len(originalRecords)

\* equality of the lower-cased string conversions
EqualsAsStrings(val, cvalue) == toLowerCase(String(val)) = toLowerCase(String(cvalue))

\* equals when "parses as a number" is read as Number()
EqualsByCoercion(val, cvalue) ==
    IF ~isNaN(val) /\ ~isNaN(cvalue)
    THEN NumEq(ToNumber(val), ToNumber(cvalue))
    ELSE EqualsAsStrings(val, cvalue)

\* equals when "parses as a number" is read as parseFloat()
EqualsByParser(val, cvalue) ==
    IF parseFloat(val).k # "nan" /\ parseFloat(cvalue).k # "nan"
    THEN NumEq(parseFloat(val), parseFloat(cvalue))
    ELSE EqualsAsStrings(val, cvalue)

\* C14: equals holds iff the two numbers are equal when both sides parse as
\* numbers, and iff the two lower-cased strings are identical otherwise.  Stated
\* for both readings of "parses as a number": the outcome must agree with one.
C14_EqualsPolymorphic ==
    (Evaluated /\ EvalVal.t \notin {"undefined", "null"} /\ evalIn.c.operator = "equals") =>
        \/ (evalOut = "true") <=> EqualsByCoercion(EvalVal, evalIn.c.value)
        \/ (evalOut = "true") <=> EqualsByParser(EvalVal, evalIn.c.value)

\* the two records and the two criteria of the numeric precedence scenario
TenRecord == Record(3, [x |-> Str(S_10)])

AppleRecord == Record(4, [x |-> Str(S_apple)])

GreaterFive == Criterion("x", "greater", Str(S_5))

ContainsApp == Criterion("x", "contains", Str(S_app))

\* the criteria list consists of the given criterion, or joins it to others under OR
DecidedBy(c) ==
    /\ InSeq(c, criteria)
    /\ Len(criteria) = 1 \/ logic = "OR"

\* C15: a record whose x is "10" is kept by {x, greater, "5"} and a record whose
\* x is "apple" is kept by {x, contains, "app"}.
C15_NumericPrecedence ==
    AfterApply =>
        /\ (DecidedBy(GreaterFive) /\ InSeq(TenRecord, originalRecords))
              => InSeq(TenRecord, records)
        /\ (DecidedBy(ContainsApp) /\ InSeq(AppleRecord, originalRecords))
              => InSeq(AppleRecord, records)

\* C15 witness: {x, greater, "5"} alone displayed the "10" record and nothing else.
C15_Witness ==
    /\ AfterApply
    /\ criteria = <<GreaterFive>>
    /\ InSeq(AppleRecord, originalRecords)
    /\ records = <<TenRecord>>

\* the two records of the worked scenarios
BrisbaneRecord == Record(1, [city |-> Str(S_Brisbane), price |-> Str(S_100)])

SydneyRecord == Record(2, [city |-> Str(S_Sydney), price |-> Str(S_50)])

\* the snapshot consists of these two records
ScenarioSnapshot ==
    /\ Len(originalRecords) = 2
    /\ {originalRecords[1], originalRecords[2]} = {BrisbaneRecord, SydneyRecord}

\* C16: on the two-record snapshot, [{price, lessOrEqual, "75"}] under AND
\* displays exactly the record with id 2.
C16_ScenarioAnd ==
    ( /\ AfterApply
      /\ ScenarioSnapshot
      /\ criteria = <<Criterion("price", "lessOrEqual", Str(S_75))>>
      /\ logic = "AND" ) => records = <<SydneyRecord>>

\* C16 witness: the scenario was run.
C16_Witness ==
    /\ AfterApply
    /\ ScenarioSnapshot
    /\ criteria = <<Criterion("price", "lessOrEqual", Str(S_75))>>
    /\ logic = "AND"
    /\ Len(records) = 1
    /\ records[1].id = 2

\* C17: on the same snapshot, [{city, startswith, "B"}, {price, greater, "200"}]
\* under OR displays exactly the record with id 1.
C17_ScenarioOr ==
    ( /\ AfterApply
      /\ ScenarioSnapshot
      /\ criteria = <<Criterion("city", "startswith", Str(S_B)),
                      Criterion("price", "greater", Str(S_200))>>
      /\ logic = "OR" ) => records = <<BrisbaneRecord>>

\* C17 witness: the scenario was run, and the price criterion alone keeps nothing.
C17_Witness ==
    /\ AfterApply
    /\ ScenarioSnapshot
    /\ criteria = <<Criterion("city", "startswith", Str(S_B)),
                    Criterion("price", "greater", Str(S_200))>>
    /\ logic = "OR"
    /\ Len(records) = 1
    /\ records[1].id = 1
    /\ ResultOf(<<criteria[2]>>, "OR") = <<>>

NoneInFlight == InFlightTotal(inFlight) = 0

\* the step starts a fetchRecords request
FetchStarted == \E f \in Forms : inFlight'[f] > inFlight[f]

\* the step delivers the answer to a fetchRecords request
FetchAnswered == \E f \in Forms : inFlight'[f] < inFlight[f]

\* C18: once a fetchRecords request has delivered and none is in flight, the
\* snapshot is the record collection of the selected form (or empty, when the
\* response was no array), not that of a form selected earlier.
C18_SnapshotOfSelectedForm ==
    (lastOp = "fetchRecords" /\ NoneInFlight /\ selectedFormId # NullForm) =>
        originalRecords \in {FormRecords(selectedFormId), <<>>}

C20_FetchResetsView ==
    [][lastOp' = "fetchRecords" =>
          \E f \in Forms :
              /\ inFlight'[f] < inFlight[f]
              /\ records' = originalRecords'
              /\ originalRecords' \in {FormRecords(f), <<>>}]_vars

\* C20 witness: a filter had narrowed the view, and the answer to a new request
\* displays the whole snapshot again although the builder still holds criteria.
C20_Witness ==
    /\ lastOp = "fetchRecords"
    /\ Len(criteria) > 0
    /\ Len(shownBefore) > 0
    /\ Len(shownBefore) < Len(records)
    /\ \A j \in 1..Len(shownBefore) : InSeq(shownBefore[j], records)
    /\ records = originalRecords

\* C21: the builder is offered no field when no record is displayed, and
\* otherwise exactly the keys of the first displayed record, each typed number
\* iff the record's value for it converts to a number in full, and text otherwise.
C21_SchemaDiscovery ==
    /\ Len(records) = 0 => fields(records) = {}
    /\ Len(records) > 0 =>
          /\ {fd.name : fd \in fields(records)} = DOMAIN records[1].values
          /\ Cardinality(fields(records)) = Cardinality(DOMAIN records[1].values)
          /\ \A fd \in fields(records) :
                /\ fd.type \in {"number", "text"}
                /\ fd.type = "number" <=> ToNumber(records[1].values[fd.name]).k # "nan"

\* C21 witness: the builder is open on the two-record snapshot and is offered
\* city as text and price as number.
C21_Witness ==
    /\ filterVisible
    /\ ScenarioSnapshot
    /\ records = originalRecords
    /\ [name |-> "city", type |-> "text"] \in fields(records)
    /\ [name |-> "price", type |-> "number"] \in fields(records)

NumericOnlyOperators == {"greater", "less", "greaterOrEqual", "lessOrEqual"}

ObjectEvaluated == Evaluated /\ EvalVal.t = "object"

\* C30 as stated: a field value that is a non-null object is not numerically
\* comparable, and every operator of the numeric table (equals included) is
\* false on it for every criterion value.
C30_ObjectNeverNumeric ==
    ObjectEvaluated =>
        /\ ~NumericGuard(EvalVal, evalIn.c.value)
        /\ evalIn.c.operator \in NumericOperators => evalOut = "false"

\* C30 amended: a field value that is a non-null object is not numerically
\* comparable; it is decided by the string table on "[object Object]", so the
\* four ordering operators are false for every criterion value, and equals is
\* true exactly for a criterion value that lower-cases to "[object object]".
C30_ObjectInStringMode ==
    ObjectEvaluated =>
        /\ ~NumericGuard(EvalVal, evalIn.c.value)
        /\ evalOut = Outcome(StringTable(evalIn.c.operator, toLowerCase(S_objectObject),
                                         toLowerCase(String(evalIn.c.value))))
        /\ evalIn.c.operator \in NumericOnlyOperators => evalOut = "false"
        /\ evalIn.c.operator = "equals" =>
              (evalOut = "true" <=> toLowerCase(evalIn.c.value.s) = toLowerCase(S_objectObject))

\* C30 witness: greater was evaluated on an object against a numeric criterion value.
C30_Witness ==
    /\ ObjectEvaluated
    /\ evalIn.c.operator = "greater"
    /\ evalIn.c.value = Str(S_0)
    /\ evalOut = "false"

\* the outcomes of all criteria of the list on a record, none skipped
AllOutcomes(record, crit) == [k \in 1..Len(crit) |-> EvalCriterion(record, crit[k])]

\* the combinator decided on all outcomes: an exception of any callback is an
\* exception of the call
DecideAll(outcomes, lg) ==
    IF \E k \in DOMAIN outcomes : outcomes[k] = "throw" THEN "throw"
    ELSE IF lg = "AND" THEN Outcome(\A k \in DOMAIN outcomes : outcomes[k] = "true")
    ELSE Outcome(\E k \in DOMAIN outcomes : outcomes[k] = "true")

FullCombinator(record, crit, lg) == DecideAll(AllOutcomes(record, crit), lg)

\* the call raises when all criteria are evaluated for every record
FullThrows(recs, crit, lg) ==
    \E i \in 1..Len(recs) : FullCombinator(recs[i], crit, lg) = "throw"

\* the records kept when all criteria are evaluated for every record
FullResult(recs, crit, lg) ==
    Pick(recs, {i \in 1..Len(recs) : FullCombinator(recs[i], crit, lg) = "true"})

\* C22: whatever calls came before, a call displays what the evaluation of all
\* criteria for every record of its snapshot yields for its criteria and logic;
\* the criteria that every / some skip change nothing.
C22_Deterministic ==
    (AfterApply /\ Len(criteria) > 0) =>
        /\ ~threw
        /\ ~FullThrows(originalRecords, criteria, logic)
        /\ records = FullResult(originalRecords, criteria, logic)

\* C22 witness: under AND the first criterion is false for a record, so the
\* second was skipped for it, and an earlier call had displayed another list.
C22_Witness ==
    /\ AfterApply
    /\ Len(criteria) = 2
    /\ logic = "AND"
    /\ \E i \in 1..Len(originalRecords) :
           EvalCriterion(originalRecords[i], criteria[1]) = "false"
    /\ Len(shownBefore) < Len(originalRecords)
    /\ shownBefore # records
    /\ Len(records) > 0

\* the criteria list rearranged by a permutation of its positions
Permuted(crit, p) == [i \in 1..Len(crit) |-> crit[p[i]]]

\* C28: a call displays the same list for every permutation of its criteria
\* and with any of its criteria entered twice.
C28_OrderIrrelevant ==
    (AfterApply /\ Len(criteria) > 0) =>
        /\ \A p \in Permutations(1..Len(criteria)) :
              ResultOf(Permuted(criteria, p), logic) = records
        /\ \A k \in 1..Len(criteria) :
              ResultOf(Append(criteria, criteria[k]), logic) = records

\* C28 witness: two criteria that keep different records were applied and kept
\* some records and dropped others.
C28_Witness ==
    /\ AfterApply
    /\ Len(criteria) = 2
    /\ ResultOf(<<criteria[1]>>, "AND") # ResultOf(<<criteria[2]>>, "AND")
    /\ Len(records) > 0
    /\ Len(records) < Len(originalRecords)

\* C29: a call whose logic value is not exactly 'AND' displays what the call
\* with 'OR' displays, and does not raise.
C29_NotAndIsOr ==
    (AfterApply /\ logic # "AND") =>
        /\ ~threw
        /\ records = ResultOf(criteria, "OR")

\* C29 witness: two criteria applied with the logic value 'and' display more
\* records than they do with 'AND'.
C29_Witness ==
    /\ AfterApply
    /\ logic = "and"
    /\ Len(criteria) = 2
    /\ Len(records) > Len(ResultOf(criteria, "AND"))

\* C25: the step in which a fetchRecords request fails leaves the displayed
\* list and the snapshot as they were, shows the alert, ends the spinner and
\* raises nothing.
C25_FailedFetchKeepsLists ==
    [][lastOp' = "fetchFailed" =>
          /\ FetchAnswered
          /\ records' = records
          /\ originalRecords' = originalRecords
          /\ alertVisible'
          /\ threw' = threw]_vars

\* C25 witness: the request for the selected form failed while the lists hold
\* the records of the form selected before.
C25_Witness ==
    /\ lastOp = "fetchFailed"
    /\ selectedFormId # NullForm
    /\ Len(originalRecords) > 0
    /\ originalRecords # FormRecords(selectedFormId)
    /\ records = shownBefore
    /\ alertVisible
    /\ NoneInFlight

\* C26: loadingRecords is true whenever a fetchRecords request is in flight,
\* also when several requests overlap.
C26_LoadingWhileInFlight == ~NoneInFlight => loadingRecords

\* C27: whenever the snapshot is non-empty and the builder is closed (the
\* screen being shown), the control that opens the builder is rendered.
C27_BuilderReachable ==
    (Len(originalRecords) > 0 /\ focused /\ ~loadingForms /\ ~filterVisible) =>
        Len(records) > 0

\* a is b with some of its elements left out
IsSubsequence(a, b) == \E K \in SUBSET (1..Len(b)) : a = Pick(b, K)

\* C23: in every state reached by fetches that succeed or fail, applyFilter
\* calls and confirmed deletions, the displayed list is a subsequence of the
\* snapshot: every displayed record is in the snapshot, in snapshot order.
C23_ViewWithinSnapshot == IsSubsequence(records, originalRecords)

\* C23 witness: a deletion succeeded and the view is a non-empty proper part of
\* the snapshot.
C23_Witness ==
    /\ lastOp = "deleteRecord"
    /\ deleted # {}
    /\ Len(records) > 0
    /\ Len(records) < Len(originalRecords)
    /\ shownBefore # records

\* the list with the record of that id left out, the others in their order
Remaining(recs, id) == Pick(recs, {i \in 1..Len(recs) : recs[i].id # id})

\* the step answers a deleteRecord request for the id
DeleteAnswered(id) == pendingDeletes'[id] < pendingDeletes[id]

\* C24: a deletion that succeeds removes exactly the record with that id from
\* both lists and keeps the other records and their order, so a view that was
\* the filter of the snapshot by the builder's criteria is that filter of the
\* new snapshot; a deletion that fails or is cancelled leaves both lists
\* unchanged.
C24_DeleteRemovesOne ==
    [][/\ lastOp' = "deleteRecord" =>
            \E id \in RecordIds :
                /\ DeleteAnswered(id)
                /\ records' = Remaining(records, id)
                /\ originalRecords' = Remaining(originalRecords, id)
                /\ records = Expected(originalRecords, criteria, logic)
                       => records' = Expected(originalRecords', criteria, logic)
       /\ lastOp' \in {"deleteFailed", "cancelDelete"} =>
            /\ records' = records
            /\ originalRecords' = originalRecords]_vars

\* C24 witness: a displayed record was deleted from a filtered view, and the
\* view is still the builder's filter of the smaller snapshot.
C24_Witness ==
    /\ lastOp = "deleteRecord"
    /\ Len(criteria) = 1
    /\ ~threw
    /\ Len(records) < Len(shownBefore)
    /\ Len(records) > 0
    /\ Len(records) < Len(originalRecords)
    /\ records = Expected(originalRecords, criteria, logic)

=============================================================================
